---- MODULE Spec2Model ----
(***************************************************************************)
(* Model of copt/stochastic.py: the SAGA / PSSAGA drivers (fmin_SAGA,      *)
(* fmin_PSSAGA), the three epoch engines and the debiasing helper.         *)
(*                                                                         *)
(* Conventions.  Floating point numbers are modelled by exact rationals    *)
(* <<num, den>> in lowest terms with den > 0.  Samples and features are    *)
(* numbered from 1 (the source numbers them from 0); the row offsets       *)
(* A_indptr keep the source's values, so row i of a compressed-row matrix  *)
(* is the slice indptr[i]+1 .. indptr[i+1] of the 1-based arrays.          *)
(***************************************************************************)
EXTENDS Integers, Sequences, FiniteSets, TLC

\* ------------------------------------------------------------------------
\* Bounds of the model
\* ------------------------------------------------------------------------
MaxIter == 2
MaxJobs == 2
MaxEntries == 3
MaxDim == 2
MaxGroupVisits == 2
MaxPasses == 4

\* ------------------------------------------------------------------------
\* Exact rational arithmetic (the model of float arithmetic)
\* ------------------------------------------------------------------------
Abs(n) == IF n < 0 THEN -n ELSE n

RECURSIVE GCD(_, _)
GCD(a, b) == IF b = 0 THEN a ELSE GCD(b, a % b)

Rat(n, d) ==
    LET s == IF d < 0 THEN -1 ELSE 1
        g == GCD(Abs(n), Abs(d))
    IN  IF n = 0 THEN <<0, 1>> ELSE <<(s * n) \div g, (s * d) \div g>>

Zero == <<0, 1>>
One == <<1, 1>>
Half == <<1, 2>>
RInt(n) == <<n, 1>>
RAdd(p, q) ==
    LET g == GCD(p[2], q[2])
    IN  Rat(p[1] * (q[2] \div g) + q[1] * (p[2] \div g), (p[2] \div g) * q[2])
RNeg(p) == <<-p[1], p[2]>>
RSub(p, q) == RAdd(p, RNeg(q))
RMul(p, q) ==
    LET g1 == GCD(Abs(p[1]), q[2])
        g2 == GCD(Abs(q[1]), p[2])
    IN  Rat((p[1] \div g1) * (q[1] \div g2), (p[2] \div g2) * (q[2] \div g1))
RDiv(p, q) == RMul(p, Rat(q[2], q[1]))
RLt(p, q) ==
    LET g == GCD(p[2], q[2])
    IN  p[1] * (q[2] \div g) < q[1] * (p[2] \div g)
RAbs(p) == <<Abs(p[1]), p[2]>>

\* vectors are sequences of rationals
VZero(n) == [j \in 1..n |-> Zero]
VAdd(u, v) == [j \in 1..Len(u) |-> RAdd(u[j], v[j])]
VSub(u, v) == [j \in 1..Len(u) |-> RSub(u[j], v[j])]
VScale(c, v) == [j \in 1..Len(v) |-> RMul(c, v[j])]
VInt(v) == [j \in 1..Len(v) |-> RInt(v[j])]

RECURSIVE RSum(_, _)
RSum(v, k) == IF k = 0 THEN Zero ELSE RAdd(RSum(v, k - 1), v[k])

\* np.dot(x, w) for two vectors of the same length
Dot(u, v) == RSum([j \in 1..Len(u) |-> RMul(u[j], v[j])], Len(u))

\* np.linalg.norm(v) < tol, decided on the squares (tol > 0)
NormLess(v, tol) == RLt(Dot(v, v), RMul(tol, tol))

\* v[idx] : the subvector at the positions listed in idx
Gather(v, idx) == [k \in 1..Len(idx) |-> v[idx[k]]]

\* the sequence s[lo+1 .. hi]  (the source's s[lo:hi])
Slice(s, lo, hi) == [k \in 1..(hi - lo) |-> s[lo + k]]

Range(s) == {s[k] : k \in 1..Len(s)}

\* the increasing enumeration of a finite set of integers
RECURSIVE SortedSeq(_)
SortedSeq(S) ==
    IF S = {} THEN <<>>
    ELSE LET m == CHOOSE a \in S : \A c \in S : a <= c
         IN  <<m>> \o SortedSeq(S \ {m})

\* np.random.permutation(n): every ordering of 1..n
permutation(n) ==
    {p \in [1..n -> 1..n] : \A a, c \in 1..n : a # c => p[a] # p[c]}

\* ------------------------------------------------------------------------
\* Caller-supplied functions: the instances the runs are checked with
\* ------------------------------------------------------------------------
\* squared loss and its derivative
f_squared(w, xrow, y) ==
    LET r == RSub(y, Dot(xrow, w)) IN RMul(Half, RMul(r, r))

deriv_squared(w, xrow, y) == RNeg(RSub(y, Dot(xrow, w)))

\* the default proximal operator installed when the argument is None
identity_prox(step, v) == v

\* a callable proximal operator: soft thresholding (the prox of the l1 norm)
soft_threshold(step, v) ==
    [j \in 1..Len(v) |->
        IF RLt(step, RAbs(v[j]))
        THEN (IF RLt(v[j], Zero) THEN RAdd(v[j], step) ELSE RSub(v[j], step))
        ELSE Zero]

\* the operator a driver ends up calling for a proximal argument of the
\* given kind ("none": absent, "callable": a function); "other" never gets here
Prox(kind, step, v) ==
    IF kind = "none" THEN identity_prox(step, v) ELSE soft_threshold(step, v)

\* ------------------------------------------------------------------------
\* The design matrix
\* ------------------------------------------------------------------------
\* A.shape
n_samples_of(P) == P.shape[1]
n_features_of(P) == P.shape[2]

\* dense row A[i]
DenseRow(P, i) == VInt(P.A[i])

\* compressed-row slices of row i
RowIdx(P, i) == Slice(P.indices, P.indptr[i], P.indptr[i + 1])
RowData(P, i) == VInt(Slice(P.data, P.indptr[i], P.indptr[i + 1]))

\* numpy's v[idx] = vals : assignments in order, the last one to an index wins
RECURSIVE Scatter(_, _, _, _)
Scatter(v, idx, vals, k) ==
    IF k = 0 THEN v
    ELSE [Scatter(v, idx, vals, k - 1) EXCEPT ![idx[k]] = vals[k]]

\* ------------------------------------------------------------------------
\* _epoch_factory_SAGA
\* ------------------------------------------------------------------------
\* one sample visit of the dense engine on the shared buffers
\* m = [x, memory_gradient, gradient_average]
\* line 277
DenseGrad(P, xv, i) == deriv_squared(xv, DenseRow(P, i), RInt(P.b[i]))

\* mutant: the update of x moves by the whole gradient estimate
DenseVisit_unit_step(P, gk, beta, step_size, m, i) ==
    LET grad_i == DenseGrad(P, m.x, i)
        incr == VScale(RSub(grad_i, m.memory_gradient[i]), DenseRow(P, i))
    IN  [x |-> Prox(gk, RMul(beta, step_size),
                    VSub(m.x, VAdd(incr, m.gradient_average))),
         gradient_average |->
             VAdd(m.gradient_average,
                  VScale(RDiv(One, RInt(n_samples_of(P))), incr)),
         memory_gradient |-> [m.memory_gradient EXCEPT ![i] = grad_i]]

DenseVisit(P, gk, beta, step_size, m, i) ==
    LET grad_i == DenseGrad(P, m.x, i)
        incr == VScale(RSub(grad_i, m.memory_gradient[i]), DenseRow(P, i))
    IN  [x |-> Prox(gk, RMul(beta, step_size),
                    VSub(m.x, VScale(step_size, VAdd(incr, m.gradient_average)))),
         gradient_average |->
             VAdd(m.gradient_average,
                  VScale(RDiv(One, RInt(n_samples_of(P))), incr)),
         memory_gradient |-> [m.memory_gradient EXCEPT ![i] = grad_i]]

\* full_loss of the dense engine: the average loss over the dataset
RECURSIVE DenseLossSum(_, _, _)
DenseLossSum(P, xv, k) ==
    IF k = 0 THEN Zero
    ELSE RAdd(DenseLossSum(P, xv, k - 1),
              RDiv(f_squared(xv, DenseRow(P, k), RInt(P.b[k])),
                   RInt(n_samples_of(P))))

\* a Python value returned by a loss evaluator: a float, or None
PyFloat(v) == [isNone |-> FALSE, val |-> v]
PyNone == [isNone |-> TRUE, val |-> Zero]

SAGA_full_loss(P, xv) == PyFloat(DenseLossSum(P, xv, n_samples_of(P)))

\* ------------------------------------------------------------------------
\* _epoch_factory_sparse_SAGA
\* ------------------------------------------------------------------------
\* g_blocks, np.arange(n_features) when the argument is None (here <<>>)
g_blocks_of(P) ==
    IF P.g_blocks = <<>> THEN [j \in 1..n_features_of(P) |-> j] ELSE P.g_blocks

\* np.unique(g_blocks).size
n_blocks_of(P) == Cardinality(Range(g_blocks_of(P)))

\* assert np.all(unique_blocks == np.arange(n_blocks))
BlocksContiguous(P) == Range(g_blocks_of(P)) = 1..n_blocks_of(P)

\* BS: the blocks the stored entries of row i fall in, as BS.tocsr() lists them
block_support(P, i) == SortedSeq({g_blocks_of(P)[j] : j \in Range(RowIdx(P, i))})

\* mutant: the slice of a block stops after its first feature
reverse_blocks_first(P, g) ==
    SortedSeq({CHOOSE j \in 1..n_features_of(P) :
                  /\ g_blocks_of(P)[j] = g
                  /\ \A k \in 1..n_features_of(P) : g_blocks_of(P)[k] = g => j <= k})

\* reverse_blocks: the features of block g, as reverse_blocks.tocsr() lists them
reverse_blocks(P, g) ==
    SortedSeq({j \in 1..n_features_of(P) : g_blocks_of(P)[j] = g})

\* BS.sum(0): the number of samples whose row touches block g
BlockCount(P, g) ==
    Cardinality({i \in 1..n_samples_of(P) : g \in Range(block_support(P, i))})

\* d[d != 0] = n_samples / d : the right-hand side has n_blocks values, the mask
\* selects the nonzero counts; numpy refuses unless the two agree or the
\* right-hand side has a single value
DebiasAssignOk(P) ==
    \/ n_blocks_of(P) = 1
    \/ \A g \in 1..n_blocks_of(P) : BlockCount(P, g) # 0

block_d(P) ==
    [g \in 1..n_blocks_of(P) |->
        IF BlockCount(P, g) = 0 THEN Zero
        ELSE RDiv(RInt(n_samples_of(P)), RInt(BlockCount(P, g)))]

\* line 346: grad_est[idx_g] += gradient_average[idx_g] * d[g]
SparseAccumulate(P, ga, grad_est, g) ==
    LET idx_g == reverse_blocks(P, g)
    IN  Scatter(grad_est, idx_g,
                VAdd(Gather(grad_est, idx_g),
                     VScale(block_d(P)[g], Gather(ga, idx_g))),
                Len(idx_g))

\* lines 343-351: the loop over the blocks of the visited sample
\* s = [x, grad_est]
RECURSIVE SparseBlocks(_, _, _, _, _, _, _, _)
SparseBlocks(P, gk, beta, step_size, ga, s, gs, k) ==
    IF k = 0 THEN s
    ELSE LET t == SparseBlocks(P, gk, beta, step_size, ga, s, gs, k - 1)
             g == gs[k]
             idx_g == reverse_blocks(P, g)
             dg == block_d(P)[g]
             ge == Gather(SparseAccumulate(P, ga, t.grad_est, g), idx_g)
             xg == Prox(gk, RMul(RMul(step_size, beta), dg),
                        VSub(Gather(t.x, idx_g), VScale(step_size, ge)))
         IN  [x |-> Scatter(t.x, idx_g, xg, Len(idx_g)),
              grad_est |-> Scatter(t.grad_est, idx_g, VZero(Len(idx_g)), Len(idx_g))]

\* line 339
SparseGrad(P, xv, i) ==
    deriv_squared(Gather(xv, RowIdx(P, i)), RowData(P, i), RInt(P.b[i]))

\* lines 336-351: gradient of the sample, scatter, the first nb block updates
SparseUpdateUpTo(P, gk, beta, step_size, m, grad_est, i, nb) ==
    LET idx == RowIdx(P, i)
        grad_i == SparseGrad(P, m.x, i)
        ge0 == Scatter(grad_est, idx,
                       VScale(RSub(grad_i, m.memory_gradient[i]), RowData(P, i)),
                       Len(idx))
    IN  SparseBlocks(P, gk, beta, step_size, m.gradient_average,
                     [x |-> m.x, grad_est |-> ge0],
                     block_support(P, i), nb)

SparseUpdate(P, gk, beta, step_size, m, grad_est, i) ==
    SparseUpdateUpTo(P, gk, beta, step_size, m, grad_est, i,
                     Len(block_support(P, i)))

\* mutant: the increment is not divided by n_samples
SparseAvgLoad_unscaled(P, m, grad_i, i) ==
    VAdd(Gather(m.gradient_average, RowIdx(P, i)),
         VScale(RSub(grad_i, m.memory_gradient[i]), RowData(P, i)))

\* line 354, the values read and computed: gradient_average[idx] + delta
SparseAvgLoad(P, m, grad_i, i) ==
    VAdd(Gather(m.gradient_average, RowIdx(P, i)),
         VScale(RDiv(RSub(grad_i, m.memory_gradient[i]), RInt(n_samples_of(P))),
                RowData(P, i)))

\* mutant: the increment of the first stored entry is spread over every
\* feature of the blocks the sample touches
SparseAvgStore_block_wide(P, m, tmp, i) ==
    LET idx == RowIdx(P, i)
        touched == {g_blocks_of(P)[idx[k]] : k \in 1..Len(idx)}
        delta == RSub(tmp[1], m.gradient_average[idx[1]])
    IN  [x |-> m.x,
         gradient_average |->
             [j \in 1..n_features_of(P) |->
                 IF g_blocks_of(P)[j] \in touched
                 THEN RAdd(m.gradient_average[j], delta)
                 ELSE m.gradient_average[j]],
         memory_gradient |-> m.memory_gradient]

\* line 354, the values written back
SparseAvgStore(P, m, tmp, i) ==
    [x |-> m.x,
     gradient_average |->
         Scatter(m.gradient_average, RowIdx(P, i), tmp, Len(RowIdx(P, i))),
     memory_gradient |-> m.memory_gradient]

\* line 355
SparseMemoryStore(P, m, grad_i, i) ==
    [x |-> m.x,
     gradient_average |-> m.gradient_average,
     memory_gradient |-> [m.memory_gradient EXCEPT ![i] = grad_i]]

\* full_loss of the sparse engine
RECURSIVE SparseLossSum(_, _, _)
SparseLossSum(P, xv, k) ==
    IF k = 0 THEN Zero
    ELSE RAdd(SparseLossSum(P, xv, k - 1),
              RDiv(f_squared(Gather(xv, RowIdx(P, k)), RowData(P, k), RInt(P.b[k])),
                   RInt(n_samples_of(P))))

sparse_SAGA_full_loss(P, xv) == PyFloat(SparseLossSum(P, xv, n_samples_of(P)))

\* ------------------------------------------------------------------------
\* _epoch_factory_PSSAGA
\* ------------------------------------------------------------------------
\* one sample visit of the primal-dual engine; m.x is the buffer the engine
\* calls y, beta = gamma = 1
\* line 380: the primal point, a local of the engine
PSSAGAPrimal(gk, step_size, y) == Prox(gk, RMul(One, step_size), y)

\* line 381
PSSAGAGrad(P, gk, step_size, y, i) ==
    deriv_squared(PSSAGAPrimal(gk, step_size, y), DenseRow(P, i), RInt(P.b[i]))

\* lines 382-383: z, a local of the engine
PSSAGADual(P, gk, hk, step_size, m, i) ==
    LET y == m.x
        xp == PSSAGAPrimal(gk, step_size, y)
        grad_i == PSSAGAGrad(P, gk, step_size, y, i)
        incr == VScale(RSub(grad_i, m.memory_gradient[i]), DenseRow(P, i))
    IN  Prox(hk, RMul(One, step_size),
             VSub(VSub(VScale(RInt(2), xp), y),
                  VScale(step_size, VAdd(incr, m.gradient_average))))

\* mutant: the primal point is written into the buffer
PSSAGAVisit_primal(P, gk, hk, step_size, m, i) ==
    LET grad_i == PSSAGAGrad(P, gk, step_size, m.x, i)
        incr == VScale(RSub(grad_i, m.memory_gradient[i]), DenseRow(P, i))
    IN  [x |-> PSSAGAPrimal(gk, step_size, m.x),
         gradient_average |->
             VAdd(m.gradient_average,
                  VScale(RDiv(One, RInt(n_samples_of(P))), incr)),
         memory_gradient |-> [m.memory_gradient EXCEPT ![i] = grad_i]]

PSSAGAVisit(P, gk, hk, step_size, m, i) ==
    LET y == m.x
        xp == PSSAGAPrimal(gk, step_size, y)
        grad_i == PSSAGAGrad(P, gk, step_size, y, i)
        incr == VScale(RSub(grad_i, m.memory_gradient[i]), DenseRow(P, i))
        z == PSSAGADual(P, gk, hk, step_size, m, i)
    IN  [x |-> VSub(y, VSub(xp, z)),
         gradient_average |->
             VAdd(m.gradient_average,
                  VScale(RDiv(One, RInt(n_samples_of(P))), incr)),
         memory_gradient |-> [m.memory_gradient EXCEPT ![i] = grad_i]]

\* full_loss of the primal-dual engine: the loop accumulates obj and the
\* function ends without a return statement
PSSAGA_full_loss(P, xv) == PyNone

\* ------------------------------------------------------------------------
\* The calls the model is run on
\* ------------------------------------------------------------------------
DenseProblem(A, b, x0) ==
    [sparse |-> FALSE, shape |-> <<Len(A), Len(A[1])>>, A |-> A,
     data |-> <<>>, indices |-> <<>>, indptr |-> <<>>, g_blocks |-> <<>>,
     b |-> b, x0 |-> x0]

SparseProblem(shape, data, indices, indptr, g_blocks, b, x0) ==
    [sparse |-> TRUE, shape |-> shape, A |-> <<>>,
     data |-> data, indices |-> indices, indptr |-> indptr, g_blocks |-> g_blocks,
     b |-> b, x0 |-> x0]

\* well-formed dense problems: one sample, and two samples of two features
DenseOne == DenseProblem(<<<<1>>>>, <<1>>, <<0>>)
DenseSquare == DenseProblem(<<<<1, 0>>, <<1, 1>>>>, <<1, 1>>, <<0, 1>>)
\* x0 of the wrong size, b of the wrong size
DenseBadX0 == DenseProblem(<<<<1, 0>>, <<1, 1>>>>, <<1, 1>>, <<0>>)
DenseBadB == DenseProblem(<<<<1, 0>>, <<1, 1>>>>, <<1>>, <<0, 1>>)

\* well-formed sparse problems: the row [1, 1] with the default block map
\* (one block per feature), and [[1,0],[1,1]] with one block of two features
SparseRow ==
    SparseProblem(<<1, 2>>, <<1, 1>>, <<1, 2>>, <<0, 2>>, <<>>, <<1>>, <<0, 1>>)
SparseOneBlock ==
    SparseProblem(<<2, 2>>, <<1, 1, 1>>, <<1, 1, 2>>, <<0, 1, 3>>, <<1, 1>>,
                  <<1, 1>>, <<0, 1>>)
\* the same matrix with the default block map: sample 1 touches one block of two
SparseTwoBlocks ==
    SparseProblem(<<2, 2>>, <<1, 1, 1>>, <<1, 1, 2>>, <<0, 1, 3>>, <<>>,
                  <<1, 1>>, <<0, 1>>)
\* a block map that skips a label, and a block that no sample touches
SparseGap ==
    SparseProblem(<<2, 2>>, <<1, 1, 1>>, <<1, 1, 2>>, <<0, 1, 3>>, <<1, 3>>,
                  <<1, 1>>, <<0, 1>>)
SparseUntouched ==
    SparseProblem(<<2, 2>>, <<1, 1>>, <<1, 1>>, <<0, 1, 2>>, <<>>,
                  <<1, 1>>, <<0, 1>>)

DenseProblems == {DenseOne, DenseSquare, DenseBadX0, DenseBadB}
SparseProblems ==
    {SparseRow, SparseOneBlock, SparseTwoBlocks, SparseGap, SparseUntouched}

\* step_size: the default -1 (unset), and a usable value
StepSizes == {RInt(-1), One}
\* tol
Tolerances == {Rat(1, 8), One}
\* what is passed for a proximal operator: None, a callable, something else
ProxKinds == {"none", "callable", "other"}
\* which caller-supplied function may raise when called
Faults == {"none", "deriv", "prox"}

\* a proximal operator can raise only where a callable was passed
Calls ==
    {c \in [solver : {"SAGA", "PSSAGA"}, P : DenseProblems \cup SparseProblems,
            step_size : StepSizes, g_prox : ProxKinds, h_prox : ProxKinds,
            n_jobs : 1..MaxJobs, max_iter : 0..MaxIter, tol : Tolerances,
            trace : BOOLEAN, callback : BOOLEAN, faulty : Faults] :
        /\ c.solver = "PSSAGA" => (c.n_jobs = 1 /\ ~c.P.sparse)
        /\ c.solver = "SAGA" => c.h_prox = "none"
        /\ c.faulty = "prox" => "callable" \in {c.g_prox, c.h_prox}
        /\ c.n_jobs * n_samples_of(c.P) <= MaxGroupVisits
        /\ c.n_jobs * c.max_iter <= MaxPasses}

\* ------------------------------------------------------------------------
\* State
\* ------------------------------------------------------------------------
VARIABLES
    inp,              \* the arguments of the call
    heap,             \* contents of the arrays: caller (x0), own (a private copy)
    xref,             \* the array the driver's name x is bound to
    memory_gradient,
    gradient_average,
    pc,               \* position of the driver
    exc,              \* the exception that left the driver, "none" if none
    it_bound,         \* whether the loop variable it has been assigned
    it,
    success,
    trace_x,
    trace_time,
    trace_fun,
    result,           \* <<>> or <<the OptimizeResult>>
    fut,              \* the epoch passes of the current group, one per worker
    gil,              \* the worker holding the interpreter lock, 0 if none
    clock,            \* elapsed time, in ticks
    groups,           \* history: epoch groups launched
    cb_log,           \* history: the arguments of the callback invocations
    checks,           \* history: outcomes of the convergence checks
    rerun,            \* the random generator's seeding: mode, draws made, first outcome
    last_deriv,       \* history: per sample, the derivative of the visit that read x last
    db                \* the debiasing helper's call: arguments, position, d

drv == <<inp, heap, xref, memory_gradient, gradient_average, pc, exc, it_bound,
         it, success, trace_x, trace_time, trace_fun, result, fut, gil, clock,
         groups, cb_log, checks, rerun, last_deriv>>
vars == <<drv, db, last_deriv>>

\* ------------------------------------------------------------------------
\* fmin_SAGA / fmin_PSSAGA : argument checks
\* ------------------------------------------------------------------------
Engine(c) ==
    IF c.solver = "PSSAGA" THEN "pssaga"
    ELSE IF c.P.sparse THEN "sparse" ELSE "dense"

\* mutant: the copy is dropped, x is the caller's array
x_array_aliased == "caller"

\* x = np.ascontiguousarray(x0).copy() : the array x is bound to
x_array == "own"

\* assert x.size == A.shape[1]
SizeMismatch(c) == Len(c.P.x0) # n_features_of(c.P)
\* assert A.shape[0] == b.size
RowsMismatch(c) == n_samples_of(c.P) # Len(c.P.b)
\* mutant: the unset default -1 is let through
StepInvalid_below_default(step) == RLt(step, RInt(-1))

\* if step_size < 0: raise ValueError
StepInvalid(step) == RLt(step, Zero)
\* neither hasattr(prox, '__call__') nor prox is None
ProxInvalid(kind) == kind \notin {"none", "callable"}

\* the sparse factory's setup (lines 296-325)
SparseSetupError(c) ==
    IF ~BlocksContiguous(c.P) THEN "AssertionError"
    ELSE IF ~DebiasAssignOk(c.P) THEN "ValueError"
    ELSE "none"

\* the exception of lines 128-154 of fmin_SAGA, "none" if they pass
SAGA_EntryError(c) ==
    IF SizeMismatch(c) THEN "AssertionError"
    ELSE IF RowsMismatch(c) THEN "AssertionError"
    ELSE IF StepInvalid(c.step_size) THEN "ValueError"
    ELSE IF ProxInvalid(c.g_prox) THEN "NotImplementedError"
    ELSE IF c.P.sparse THEN SparseSetupError(c)
    ELSE "none"

\* the exception of lines 203-230 of fmin_PSSAGA, "none" if they pass
PSSAGA_EntryError(c) ==
    IF ProxInvalid(c.g_prox) THEN "NotImplementedError"
    ELSE IF ProxInvalid(c.h_prox) THEN "NotImplementedError"
    ELSE IF SizeMismatch(c) THEN "AssertionError"
    ELSE IF RowsMismatch(c) THEN "AssertionError"
    ELSE IF StepInvalid(c.step_size) THEN "ValueError"
    ELSE "none"

\* ------------------------------------------------------------------------
\* Shared buffers and epoch passes
\* ------------------------------------------------------------------------
\* beta: float = 1.0
beta == One

n_samples == n_samples_of(inp.P)
n_features == n_features_of(inp.P)

\* the three buffers an epoch pass is handed
Mem ==
    [x |-> heap[xref], memory_gradient |-> memory_gradient,
     gradient_average |-> gradient_average]

WriteMem(m) ==
    /\ heap' = [heap EXCEPT ![xref] = m.x]
    /\ memory_gradient' = m.memory_gradient
    /\ gradient_average' = m.gradient_average

\* the number of passes of one epoch group
Jobs == IF inp.solver = "PSSAGA" THEN 1 ELSE inp.n_jobs

\* mutant: the generator ignores the seed
Draws_unseeded(k) == [1..Jobs -> permutation(n_samples)]

\* np.random.permutation(n_samples), once per pass of group k: any orderings,
\* except that a run repeated with the seed of an earlier run draws what that
\* run drew
Draws(k) ==
    IF rerun.mode = "second" /\ k <= Len(rerun.draws) THEN {rerun.draws[k]}
    ELSE [1..Jobs -> permutation(n_samples)]

\* the generator after the draws perms
Drawn(perms) ==
    IF rerun.mode = "first" THEN [rerun EXCEPT !.draws = Append(@, perms)]
    ELSE rerun

\* the frame of a pass that was just submitted with permutation perm
NewPass(perm) ==
    [perm |-> perm, pos |-> 1, phase |-> "update", state |-> "running",
     grad_i |-> Zero, tmp |-> <<>>, visited |-> <<>>, locals |-> <<>>,
     grad_est |-> IF Engine(inp) = "sparse" THEN VZero(n_features) ELSE <<>>]

\* mutant: the pass returns after its first sample visit
Advance_one_visit(f) ==
    [f EXCEPT !.pos = f.pos + 1, !.phase = "update",
              !.visited = Append(f.visited, f.perm[f.pos]),
              !.state = "finished"]

\* the pass moves on to its next sample, or ends
Advance(f) ==
    [f EXCEPT !.pos = f.pos + 1, !.phase = "update",
              !.visited = Append(f.visited, f.perm[f.pos]),
              !.state = IF f.pos = Len(f.perm) THEN "finished" ELSE "running"]

\* the pass ends with the exception of a caller-supplied function
Raise(f) == [f EXCEPT !.state = "raised"]

\* the outcomes of the calls of caller-supplied functions in one visit
Outcomes == {"ok"} \cup (IF inp.faulty = "none" THEN {} ELSE {inp.faulty})

\* mutant: the wait returns as soon as one pass has ended
AllDone_first_completed(f) ==
    \E w \in DOMAIN f : f[w].state \in {"finished", "raised"}

\* futures.wait(fut) and the executor's shutdown: every pass has ended
AllDone(f) == \A w \in DOMAIN f : f[w].state \in {"finished", "raised"}

\* ------------------------------------------------------------------------
\* fmin_SAGA
\* ------------------------------------------------------------------------
SAGA_Enter ==
    /\ pc = "entry" /\ inp.solver = "SAGA"
    /\ xref' = x_array
    /\ heap' = [heap EXCEPT ![x_array] = heap.caller]
    /\ LET e == SAGA_EntryError(inp)
       IN  IF e # "none"
           THEN /\ pc' = "raised" /\ exc' = e
                /\ UNCHANGED <<memory_gradient, gradient_average>>
           ELSE /\ pc' = "loop" /\ exc' = exc
                /\ memory_gradient' = VZero(n_samples)
                /\ gradient_average' = VZero(n_features)
    /\ UNCHANGED <<inp, it_bound, it, success, trace_x, trace_time, trace_fun,
                   result, fut, gil, clock, groups, cb_log, checks, rerun, db, last_deriv>>

\* the next value of for it in range(max_iter)
NextIt == IF it_bound THEN it + 1 ELSE 0

\* lines 166-172: the loop goes on, one pass per worker is submitted
SAGA_Launch ==
    /\ pc = "loop" /\ inp.solver = "SAGA"
    /\ NextIt < inp.max_iter
    /\ it' = NextIt /\ it_bound' = TRUE
    /\ \E perms \in Draws(groups + 1) :
           /\ fut' = [w \in 1..Jobs |-> NewPass(perms[w])]
           /\ rerun' = Drawn(perms)
    /\ pc' = "wait"
    /\ groups' = groups + 1
    /\ clock' = clock + 1
    /\ UNCHANGED <<inp, heap, xref, memory_gradient, gradient_average, exc,
                   success, trace_x, trace_time, trace_fun, result, gil,
                   cb_log, checks, db, last_deriv>>

\* range(max_iter) is exhausted
LoopEnd ==
    /\ pc = "loop"
    /\ NextIt >= inp.max_iter
    /\ pc' = "after_loop"
    /\ UNCHANGED <<inp, heap, xref, memory_gradient, gradient_average, exc,
                   it_bound, it, success, trace_x, trace_time, trace_fun,
                   result, fut, gil, clock, groups, cb_log, checks, rerun, db, last_deriv>>

WorkerFrame ==
    UNCHANGED <<inp, xref, pc, exc, it_bound, it, success, trace_x, trace_time,
                trace_fun, result, clock, groups, cb_log, checks, rerun, db>>

\* one sample visit of a dense pass (lines 276-281); the engine is compiled
\* without nogil, so a pass keeps the interpreter lock from start to end
DenseStep(w) ==
    /\ inp.solver = "SAGA" /\ Engine(inp) = "dense"
    /\ w \in DOMAIN fut /\ fut[w].state = "running"
    /\ gil \in {0, w}
    /\ \E o \in Outcomes :
         LET f == IF o = "ok" THEN Advance(fut[w]) ELSE Raise(fut[w])
         IN  /\ fut' = [fut EXCEPT ![w] = f]
             /\ gil' = IF f.state = "running" THEN w ELSE 0
             /\ IF o = "ok"
                THEN LET i == fut[w].perm[fut[w].pos]
                     IN  /\ WriteMem(DenseVisit(inp.P, inp.g_prox, beta,
                                                inp.step_size, Mem, i))
                         /\ last_deriv' =
                                [last_deriv EXCEPT ![i] = <<DenseGrad(inp.P, Mem.x, i)>>]
                ELSE UNCHANGED <<heap, memory_gradient, gradient_average, last_deriv>>
    /\ WorkerFrame

\* a sparse pass, lines 336-351 of one visit: the gradient of the sample and
\* the block updates of x.  The engine is compiled with nogil, so the steps of
\* the passes of a group interleave.
SparseUpdateStep(w) ==
    /\ inp.solver = "SAGA" /\ Engine(inp) = "sparse"
    /\ w \in DOMAIN fut /\ fut[w].state = "running" /\ fut[w].phase = "update"
    /\ LET i == fut[w].perm[fut[w].pos]
           gs == block_support(inp.P, i)
       IN  \E o \in Outcomes :
             \/ /\ o = "ok"
                /\ LET r == SparseUpdate(inp.P, inp.g_prox, beta, inp.step_size,
                                         Mem, fut[w].grad_est, i)
                   IN  /\ heap' = [heap EXCEPT ![xref] = r.x]
                       /\ fut' = [fut EXCEPT ![w].grad_i = SparseGrad(inp.P, Mem.x, i),
                                             ![w].grad_est = r.grad_est,
                                             ![w].phase = "load"]
                       /\ last_deriv' =
                              [last_deriv EXCEPT ![i] = <<SparseGrad(inp.P, Mem.x, i)>>]
             \/ /\ o = "deriv"
                /\ fut' = [fut EXCEPT ![w] = Raise(@)]
                /\ heap' = heap /\ last_deriv' = last_deriv
             \/ /\ o = "prox"
                /\ \E k \in 1..Len(gs) :
                     LET r == SparseUpdateUpTo(inp.P, inp.g_prox, beta,
                                 inp.step_size, Mem, fut[w].grad_est, i, k - 1)
                     IN  /\ heap' = [heap EXCEPT ![xref] = r.x]
                         /\ fut' = [fut EXCEPT
                                ![w].grad_est =
                                    SparseAccumulate(inp.P, gradient_average,
                                                     r.grad_est, gs[k]),
                                ![w].state = "raised"]
                         /\ last_deriv' = last_deriv
    /\ UNCHANGED <<memory_gradient, gradient_average, gil>>
    /\ WorkerFrame

\* line 354, first half: read gradient_average[idx] and memory_gradient[i]
SparseLoadStep(w) ==
    /\ inp.solver = "SAGA" /\ Engine(inp) = "sparse"
    /\ w \in DOMAIN fut /\ fut[w].state = "running" /\ fut[w].phase = "load"
    /\ fut' = [fut EXCEPT ![w].tmp = SparseAvgLoad(inp.P, Mem, fut[w].grad_i,
                                                   fut[w].perm[fut[w].pos]),
                          ![w].phase = "store"]
    /\ UNCHANGED <<heap, memory_gradient, gradient_average, gil, last_deriv>>
    /\ WorkerFrame

\* line 354, second half: write gradient_average[idx]
SparseStoreStep(w) ==
    /\ inp.solver = "SAGA" /\ Engine(inp) = "sparse"
    /\ w \in DOMAIN fut /\ fut[w].state = "running" /\ fut[w].phase = "store"
    /\ WriteMem(SparseAvgStore(inp.P, Mem, fut[w].tmp, fut[w].perm[fut[w].pos]))
    /\ fut' = [fut EXCEPT ![w].tmp = <<>>, ![w].phase = "memory"]
    /\ UNCHANGED <<gil, last_deriv>>
    /\ WorkerFrame

\* line 355: memory_gradient[i] = grad_i, the end of the visit
SparseMemoryStep(w) ==
    /\ inp.solver = "SAGA" /\ Engine(inp) = "sparse"
    /\ w \in DOMAIN fut /\ fut[w].state = "running" /\ fut[w].phase = "memory"
    /\ WriteMem(SparseMemoryStore(inp.P, Mem, fut[w].grad_i,
                                  fut[w].perm[fut[w].pos]))
    /\ fut' = [fut EXCEPT ![w] = Advance(@)]
    /\ UNCHANGED <<gil, last_deriv>>
    /\ WorkerFrame

\* futures.wait(fut) returns and the with block is left (line 173)
SAGA_Join ==
    /\ pc = "wait" /\ inp.solver = "SAGA"
    /\ AllDone(fut)
    /\ pc' = "callback"
    /\ UNCHANGED <<inp, heap, xref, memory_gradient, gradient_average, exc,
                   it_bound, it, success, trace_x, trace_time, trace_fun,
                   result, fut, gil, clock, groups, cb_log, checks, rerun, db, last_deriv>>

\* ------------------------------------------------------------------------
\* fmin_PSSAGA
\* ------------------------------------------------------------------------
PSSAGA_Enter ==
    /\ pc = "entry" /\ inp.solver = "PSSAGA"
    /\ LET e == PSSAGA_EntryError(inp)
           copied == ~ProxInvalid(inp.g_prox) /\ ~ProxInvalid(inp.h_prox)
       IN  /\ xref' = IF copied THEN x_array ELSE xref
           /\ heap' = IF copied THEN [heap EXCEPT ![x_array] = heap.caller] ELSE heap
           /\ IF e # "none"
              THEN /\ pc' = "raised" /\ exc' = e
                   /\ UNCHANGED <<memory_gradient, gradient_average>>
              ELSE /\ pc' = "loop" /\ exc' = exc
                   /\ memory_gradient' = VZero(n_samples)
                   /\ gradient_average' = VZero(n_features)
    /\ UNCHANGED <<inp, it_bound, it, success, trace_x, trace_time, trace_fun,
                   result, fut, gil, clock, groups, cb_log, checks, rerun, db, last_deriv>>

\* lines 242-244: the loop goes on and the driver itself starts one pass;
\* fut holds the frame of that call
PSSAGA_Launch ==
    /\ pc = "loop" /\ inp.solver = "PSSAGA"
    /\ NextIt < inp.max_iter
    /\ it' = NextIt /\ it_bound' = TRUE
    /\ \E perms \in Draws(groups + 1) :
           /\ fut' = [w \in 1..Jobs |-> NewPass(perms[w])]
           /\ rerun' = Drawn(perms)
    /\ pc' = "epoch"
    /\ groups' = groups + 1
    /\ clock' = clock + 1
    /\ UNCHANGED <<inp, heap, xref, memory_gradient, gradient_average, exc,
                   success, trace_x, trace_time, trace_fun, result, gil,
                   cb_log, checks, db, last_deriv>>

\* one sample visit of the primal-dual pass (lines 380-386), in the driver's
\* own thread: an exception of a caller-supplied function leaves the driver
PSSAGAStep ==
    /\ pc = "epoch" /\ inp.solver = "PSSAGA"
    /\ fut[1].state = "running"
    /\ \E o \in Outcomes :
         IF o = "ok"
         THEN LET i == fut[1].perm[fut[1].pos]
              IN  /\ WriteMem(PSSAGAVisit(inp.P, inp.g_prox, inp.h_prox,
                                          inp.step_size, Mem, i))
                  /\ fut' = [fut EXCEPT ![1] = Advance([@ EXCEPT !.locals =
                         <<[y |-> Mem.x,
                            x |-> PSSAGAPrimal(inp.g_prox, inp.step_size, Mem.x),
                            z |-> PSSAGADual(inp.P, inp.g_prox, inp.h_prox,
                                             inp.step_size, Mem, i)]>>])]
                  /\ last_deriv' =
                         [last_deriv EXCEPT ![i] =
                             <<PSSAGAGrad(inp.P, inp.g_prox, inp.step_size, Mem.x, i)>>]
                  /\ UNCHANGED <<pc, exc>>
         ELSE /\ fut' = [fut EXCEPT ![1] = Raise(@)]
              /\ pc' = "raised" /\ exc' = "UserError"
              /\ UNCHANGED <<heap, memory_gradient, gradient_average, last_deriv>>
    /\ UNCHANGED <<inp, xref, it_bound, it, success, trace_x, trace_time,
                   trace_fun, result, gil, clock, groups, cb_log, checks, rerun, db>>

\* epoch_iteration returns
PSSAGA_EpochReturn ==
    /\ pc = "epoch" /\ inp.solver = "PSSAGA"
    /\ fut[1].state = "finished"
    /\ pc' = "callback"
    /\ UNCHANGED <<inp, heap, xref, memory_gradient, gradient_average, exc,
                   it_bound, it, success, trace_x, trace_time, trace_fun,
                   result, fut, gil, clock, groups, cb_log, checks, rerun, db, last_deriv>>

\* ------------------------------------------------------------------------
\* Both drivers: callback, trace, convergence check, result
\* ------------------------------------------------------------------------
\* lines 174-175 / 245-246
Callback ==
    /\ pc = "callback"
    /\ cb_log' = IF inp.callback THEN Append(cb_log, heap[xref]) ELSE cb_log
    /\ pc' = "trace"
    /\ UNCHANGED <<inp, heap, xref, memory_gradient, gradient_average, exc,
                   it_bound, it, success, trace_x, trace_time, trace_fun,
                   result, fut, gil, clock, groups, checks, rerun, db, last_deriv>>

\* lines 176-178 / 247-249
Trace ==
    /\ pc = "trace"
    /\ IF inp.trace
       THEN /\ trace_x' = Append(trace_x, heap[xref])
            /\ trace_time' = Append(trace_time, clock)
       ELSE UNCHANGED <<trace_x, trace_time>>
    /\ pc' = "check"
    /\ UNCHANGED <<inp, heap, xref, memory_gradient, gradient_average, exc,
                   it_bound, it, success, trace_fun, result, fut, gil, clock,
                   groups, cb_log, checks, rerun, db, last_deriv>>

\* lines 180-181, 184: norm of the gradient mapping below tol
SAGA_Converged(c, m) ==
    NormLess(VSub(m.x, Prox(c.g_prox, RMul(beta, c.step_size),
                            VSub(m.x, VScale(c.step_size, m.gradient_average)))),
             c.tol)

\* lines 251, 254: norm of gradient_average below tol
PSSAGA_Converged(c, m) == NormLess(m.gradient_average, c.tol)

Converged(c, m) ==
    IF c.solver = "SAGA" THEN SAGA_Converged(c, m) ELSE PSSAGA_Converged(c, m)

\* mutant: the break is missing
AfterCheck_no_break(conv) == "loop"

\* lines 184-186 / 254-256: where the driver goes after the check
AfterCheck(conv) == IF conv THEN "after_loop" ELSE "loop"

\* in fmin_SAGA the check calls g_prox, which may raise in the driver's thread
CheckOutcomes ==
    {"ok"} \cup (IF inp.solver = "SAGA" /\ inp.faulty = "prox" THEN {"prox"} ELSE {})

Check ==
    /\ pc = "check"
    /\ \E o \in CheckOutcomes :
         IF o = "ok"
         THEN LET conv == Converged(inp, Mem)
              IN  /\ checks' = Append(checks, conv)
                  /\ success' = (success \/ conv)
                  /\ pc' = AfterCheck(conv)
                  /\ exc' = exc
         ELSE /\ pc' = "raised" /\ exc' = "UserError"
              /\ UNCHANGED <<checks, success>>
    /\ UNCHANGED <<inp, heap, xref, memory_gradient, gradient_average,
                   it_bound, it, trace_x, trace_time, trace_fun, result, fut,
                   gil, clock, groups, cb_log, rerun, db, last_deriv>>

\* the loss evaluator the factory of the engine returned
trace_loss(c, xv) ==
    IF Engine(c) = "dense" THEN SAGA_full_loss(c.P, xv)
    ELSE IF Engine(c) = "sparse" THEN sparse_SAGA_full_loss(c.P, xv)
    ELSE PSSAGA_full_loss(c.P, xv)

\* lines 187-192 / 257-262: executor.map keeps the order of trace_x
ComputeTrace ==
    /\ pc = "after_loop"
    /\ trace_fun' = IF inp.trace
                    THEN [k \in 1..Len(trace_x) |-> trace_loss(inp, trace_x[k])]
                    ELSE trace_fun
    /\ pc' = "return"
    /\ UNCHANGED <<inp, heap, xref, memory_gradient, gradient_average, exc,
                   it_bound, it, success, trace_x, trace_time, result, fut,
                   gil, clock, groups, cb_log, checks, rerun, db, last_deriv>>

\* lines 194-195 / 264-265: nit=it; reading it fails when the loop body never ran
Return ==
    /\ pc = "return"
    /\ IF it_bound
       THEN /\ result' = <<[x |-> heap[xref], success |-> success, nit |-> it,
                            trace_fun |-> trace_fun, trace_time |-> trace_time]>>
            /\ pc' = "returned" /\ exc' = exc
       ELSE /\ pc' = "raised" /\ exc' = "UnboundLocalError"
            /\ result' = result
    /\ UNCHANGED <<inp, heap, xref, memory_gradient, gradient_average,
                   it_bound, it, success, trace_x, trace_time, trace_fun, fut,
                   gil, clock, groups, cb_log, checks, rerun, db, last_deriv>>

\* ------------------------------------------------------------------------
\* _debiasing_vec
\* ------------------------------------------------------------------------
\* line 51 over the entries lo+1 .. hi of A_indices
RECURSIVE DebiasRow(_, _, _, _)
DebiasRow(A_indices, d, lo, hi) ==
    IF hi <= lo THEN d
    ELSE LET e == DebiasRow(A_indices, d, lo, hi - 1)
         IN  [e EXCEPT ![A_indices[hi]] = @ + 1]

\* lines 49-51 over the rows 1 .. i
RECURSIVE DebiasRows(_, _, _, _)
DebiasRows(A_indices, A_indptr, d, i) ==
    IF i = 0 THEN d
    ELSE DebiasRow(A_indices, DebiasRows(A_indices, A_indptr, d, i - 1),
                   A_indptr[i], A_indptr[i + 1])

\* the value _debiasing_vec returns
debiasing_vec(A_indices, A_indptr, ns, nf) ==
    LET cnt == DebiasRows(A_indices, A_indptr, [j \in 1..nf |-> 0], ns)
    IN  [j \in 1..nf |->
            IF cnt[j] # 0 THEN RDiv(RInt(ns), RInt(cnt[j])) ELSE Zero]

\* compressed-row index arrays of an ns x nf matrix with at most MaxEntries
\* stored entries
CSRIndptrs(ns) ==
    {p \in [1..(ns + 1) -> 0..MaxEntries] :
        p[1] = 0 /\ \A i \in 1..ns : p[i] <= p[i + 1]}

DebiasArgs ==
    UNION {UNION {{[n_samples |-> ns, n_features |-> nf, A_indptr |-> p,
                    A_indices |-> ix] : ix \in [1..p[ns + 1] -> 1..nf]} :
                  p \in CSRIndptrs(ns)} : ns \in 1..MaxDim, nf \in 1..MaxDim}

DebiasIdle ==
    [args |-> [n_samples |-> 1, n_features |-> 1, A_indptr |-> <<0, 0>>,
               A_indices |-> <<>>],
     pc |-> "idle", d |-> <<>>]

Debias ==
    /\ db.pc = "called"
    /\ db' = [db EXCEPT !.pc = "returned",
                        !.d = debiasing_vec(db.args.A_indices, db.args.A_indptr,
                                            db.args.n_samples, db.args.n_features)]
    /\ UNCHANGED drv

\* ------------------------------------------------------------------------
\* Specifications
\* ------------------------------------------------------------------------
DriverIdle(c) ==
    /\ inp = c
    /\ heap = [caller |-> VInt(c.P.x0), own |-> <<>>]
    /\ xref = "unbound"
    /\ memory_gradient = <<>>
    /\ gradient_average = <<>>
    /\ exc = "none"
    /\ it_bound = FALSE /\ it = 0
    /\ success = FALSE
    /\ trace_x = <<>> /\ trace_time = <<>> /\ trace_fun = <<>>
    /\ result = <<>>
    /\ fut = <<>>
    /\ gil = 0
    /\ clock = 0
    /\ groups = 0
    /\ cb_log = <<>>
    /\ checks = <<>>
    /\ last_deriv = [i \in 1..n_samples_of(c.P) |-> <<>>]

\* a call of fmin_SAGA or fmin_PSSAGA
Init ==
    /\ \E c \in Calls : DriverIdle(c)
    /\ pc = "entry"
    /\ rerun = [mode |-> "single", draws |-> <<>>, first |-> <<>>]
    /\ db = DebiasIdle

Next ==
    \/ SAGA_Enter
    \/ SAGA_Launch
    \/ \E w \in 1..MaxJobs : DenseStep(w)
    \/ \E w \in 1..MaxJobs : SparseUpdateStep(w)
    \/ \E w \in 1..MaxJobs : SparseLoadStep(w)
    \/ \E w \in 1..MaxJobs : SparseStoreStep(w)
    \/ \E w \in 1..MaxJobs : SparseMemoryStep(w)
    \/ SAGA_Join
    \/ PSSAGA_Enter
    \/ PSSAGA_Launch
    \/ PSSAGAStep
    \/ PSSAGA_EpochReturn
    \/ LoopEnd
    \/ Callback
    \/ Trace
    \/ Check
    \/ ComputeTrace
    \/ Return

Spec == Init /\ [][Next]_vars

\* a call of _debiasing_vec
InitDebias ==
    /\ DriverIdle(CHOOSE c \in Calls : TRUE)
    /\ pc = "idle"
    /\ rerun = [mode |-> "single", draws |-> <<>>, first |-> <<>>]
    /\ \E a \in DebiasArgs : db = [args |-> a, pc |-> "called", d |-> <<>>]

NextDebias == Debias

SpecDebias == InitDebias /\ [][NextDebias]_vars

\* what a run of a driver left to its caller
Outcome == [pc |-> pc, exc |-> exc, result |-> result]

\* the caller seeds the generator as before the first run and calls the
\* solver again with the same arguments; x0 is the caller's array as the first
\* run left it
Repeat ==
    /\ rerun.mode = "first" /\ pc \in {"returned", "raised"}
    /\ rerun' = [rerun EXCEPT !.mode = "second", !.first = <<Outcome>>]
    /\ heap' = [caller |-> heap.caller, own |-> <<>>]
    /\ xref' = "unbound"
    /\ memory_gradient' = <<>> /\ gradient_average' = <<>>
    /\ pc' = "entry" /\ exc' = "none"
    /\ it_bound' = FALSE /\ it' = 0
    /\ success' = FALSE
    /\ trace_x' = <<>> /\ trace_time' = <<>> /\ trace_fun' = <<>>
    /\ result' = <<>>
    /\ fut' = <<>>
    /\ gil' = 0 /\ clock' = 0 /\ groups' = 0
    /\ cb_log' = <<>> /\ checks' = <<>>
    /\ last_deriv' = [i \in 1..n_samples |-> <<>>]
    /\ UNCHANGED <<inp, db>>

\* fmin_SAGA called twice with one worker, the same arguments and the same seed
InitRerun ==
    /\ \E c \in Calls :
          /\ c.solver = "SAGA" /\ c.n_jobs = 1 /\ c.faulty = "none"
          /\ DriverIdle(c)
    /\ pc = "entry"
    /\ rerun = [mode |-> "first", draws |-> <<>>, first |-> <<>>]
    /\ db = DebiasIdle

NextRerun ==
    \/ SAGA_Enter
    \/ SAGA_Launch
    \/ DenseStep(1)
    \/ SparseUpdateStep(1)
    \/ SparseLoadStep(1)
    \/ SparseStoreStep(1)
    \/ SparseMemoryStep(1)
    \/ SAGA_Join
    \/ LoopEnd
    \/ Callback
    \/ Trace
    \/ Check
    \/ ComputeTrace
    \/ Return
    \/ Repeat

SpecRerun == InitRerun /\ [][NextRerun]_vars

\* the dense engine's epoch pass called on its own: any buffers, any
\* permutation, step size 0 or 1, the proximal operator absent
EpochSteps == {Zero, One}
EpochVectors(n, vals) == {VInt(v) : v \in [1..n -> vals]}

EpochCall(P, step) ==
    [solver |-> "SAGA", P |-> P, step_size |-> step, g_prox |-> "none",
     h_prox |-> "none", n_jobs |-> 1, max_iter |-> 1, tol |-> One,
     trace |-> FALSE, callback |-> FALSE, faulty |-> "none"]

\* heap.caller keeps the x the pass was handed, heap.own is the buffer it works on
InitEpoch ==
    /\ \E step \in EpochSteps : inp = EpochCall(DenseSquare, step)
    /\ \E xv \in EpochVectors(n_features, {-1, 0, 1}) :
          heap = [caller |-> xv, own |-> xv]
    /\ xref = "own"
    /\ memory_gradient \in EpochVectors(n_samples, {0, 1})
    /\ gradient_average \in EpochVectors(n_features, {0, 1})
    /\ \E perm \in permutation(n_samples) : fut = <<NewPass(perm)>>
    /\ pc = "wait" /\ exc = "none"
    /\ it_bound = TRUE /\ it = 0
    /\ success = FALSE
    /\ trace_x = <<>> /\ trace_time = <<>> /\ trace_fun = <<>>
    /\ result = <<>>
    /\ gil = 0 /\ clock = 0 /\ groups = 1
    /\ cb_log = <<>> /\ checks = <<>>
    /\ last_deriv = [i \in 1..n_samples |-> <<>>]
    /\ rerun = [mode |-> "single", draws |-> <<>>, first |-> <<>>]
    /\ db = DebiasIdle

NextEpoch == DenseStep(1)

SpecEpoch == InitEpoch /\ [][NextEpoch]_vars

\* ------------------------------------------------------------------------
\* Properties
\* ------------------------------------------------------------------------
Running == {"loop", "wait", "epoch", "callback", "trace", "check"}
Ended == {"returned", "raised"}

\* the loop of the driver has been left
LoopLeft ==
    \/ pc \in {"after_loop", "return", "returned"}
    \/ pc = "raised" /\ exc = "UnboundLocalError"

SomePassRaised == \E w \in DOMAIN fut : fut[w].state = "raised"

LastCheckHeld == checks # <<>> /\ checks[Len(checks)]

\* C1: once a caller-supplied function has raised inside an epoch pass, the
\* driver is either still at the barrier of that group or has been left by
\* that exception: it never goes on to the callback, the convergence check,
\* another group or the result.
C1_FailureAborts ==
    SomePassRaised =>
        /\ pc \in {"wait", "raised"}
        /\ pc = "raised" => exc = "UserError"
        /\ result = <<>>

\* the state part of C2
C2_Exits ==
    inp.faulty = "none" =>
        /\ groups <= inp.max_iter
        /\ pc = "wait" =>
              \/ AllDone(fut)
              \/ \E w \in DOMAIN fut : fut[w].state = "running" /\ gil \in {0, w}
        /\ Len(checks) <= groups /\ groups <= Len(checks) + 1
        /\ \A k \in 1..(Len(checks) - 1) : ~checks[k]
        /\ LastCheckHeld => pc \notin Running
        /\ LoopLeft =>
              /\ Len(checks) = groups
              /\ success = LastCheckHeld
              /\ (~success) =
                    (groups = inp.max_iter /\ \A k \in 1..Len(checks) : ~checks[k])

\* the steps a pass has left, at most four per sample visit
PassLeft(f) ==
    IF f.state # "running" THEN 0
    ELSE 4 * (Len(f.perm) - f.pos + 1)
         - (CASE f.phase = "update" -> 0 [] f.phase = "load" -> 1
              [] f.phase = "store" -> 2 [] OTHER -> 3)

RECURSIVE GroupLeft(_, _)
GroupLeft(f, k) == IF k = 0 THEN 0 ELSE GroupLeft(f, k - 1) + PassLeft(f[k])

\* an upper bound of the steps the run has left
StepsLeft ==
    LET group == 4 * Jobs * inp.P.shape[1] + 5
        later == (inp.max_iter - groups) * group + 3
    IN  CASE pc = "entry" -> later + 1
          [] pc = "loop" -> later
          [] pc \in {"wait", "epoch"} -> later + GroupLeft(fut, Len(fut)) + 4
          [] pc = "callback" -> later + 3
          [] pc = "trace" -> later + 2
          [] pc = "check" -> later + 1
          [] pc = "after_loop" -> 2
          [] pc = "return" -> 1
          [] OTHER -> 0

\* C2: with caller-supplied functions that return, at most max_iter groups
\* run and a check follows each; a check that held is the last one and no
\* group follows it; the loop is left with success exactly when the last
\* check held, without success exactly when max_iter groups ran and no check
\* held; every step brings the end of the run nearer and the barrier of a
\* group is never stuck.
C2_ConvergenceOrBudget ==
    /\ []C2_Exits
    /\ [][inp.faulty = "none" => (StepsLeft' < StepsLeft /\ StepsLeft' >= 0)]_vars

C2_Witness ==
    /\ pc = "returned" /\ inp.faulty = "none"
    /\ success /\ groups = 1 /\ inp.max_iter = 2

\* C3: a run whose loop was left returns a record, and its nit is the number
\* of epoch groups that were executed.
C3_NitCountsGroups ==
    /\ pc = "returned" => result[1].nit = groups
    /\ LoopLeft => pc # "raised"

\* C4: in fmin_SAGA a pass runs only while the driver waits at the barrier;
\* callback, snapshot and check of a group see all n_jobs passes of the group
\* ended; and a group is launched only after the check of the one before.
C4_Barrier ==
    inp.solver = "SAGA" =>
        /\ (\E w \in DOMAIN fut : fut[w].state = "running") => pc = "wait"
        /\ pc \in {"callback", "trace", "check"} =>
              /\ DOMAIN fut = 1..inp.n_jobs
              /\ \A w \in DOMAIN fut : fut[w].state \in {"finished", "raised"}
        /\ pc \in {"wait", "callback", "trace", "check"} => Len(checks) = groups - 1
        /\ pc \in {"loop", "after_loop"} => Len(checks) = groups

C4_Witness ==
    /\ inp.solver = "SAGA" /\ inp.n_jobs = 2
    /\ pc = "check" /\ groups = 2
    /\ \A w \in 1..2 : fut[w].state = "finished"

\* the average loss over the dataset at xv
Objective(P, xv) ==
    IF P.sparse THEN SparseLossSum(P, xv, n_samples_of(P))
    ELSE DenseLossSum(P, xv, n_samples_of(P))

\* C5: in a returned record, with tracing trace_fun and trace_time have one
\* entry per executed group and the k-th trace_fun entry is the average loss
\* at the k-th snapshot of x; without tracing both are empty.
C5_TraceMatches ==
    pc = "returned" =>
        IF inp.trace
        THEN /\ Len(result[1].trace_fun) = groups
             /\ Len(result[1].trace_time) = groups
             /\ \A k \in 1..groups :
                    result[1].trace_fun[k] = PyFloat(Objective(inp.P, trace_x[k]))
        ELSE result[1].trace_fun = <<>> /\ result[1].trace_time = <<>>

\* C6: the loss evaluator of the primal-dual engine returns the average loss,
\* as the evaluator of the dense engine does, at every snapshot fmin_PSSAGA
\* takes.
C6_PSSAGALossReturned ==
    (inp.solver = "PSSAGA" /\ pc \in {"after_loop", "return", "returned"}) =>
        \A k \in 1..Len(trace_x) :
            /\ PSSAGA_full_loss(inp.P, trace_x[k]) = SAGA_full_loss(inp.P, trace_x[k])
            /\ pc = "returned" =>
                  result[1].trace_fun[k] = PyFloat(Objective(inp.P, trace_x[k]))

\* the inputs C7 lists
BadArguments(c) ==
    \/ Len(c.P.x0) # c.P.shape[2]
    \/ c.P.shape[1] # Len(c.P.b)
    \/ c.step_size[1] < 0
    \/ c.g_prox = "other"
    \/ c.solver = "PSSAGA" /\ c.h_prox = "other"

\* C7: a call with one of these inputs fails before any pass is launched and
\* before any callback, and returns no record.
C7_RejectedEarly ==
    BadArguments(inp) =>
        /\ pc \in {"entry", "raised"}
        /\ pc = "raised" =>
              exc \in {"AssertionError", "ValueError", "NotImplementedError"}
        /\ groups = 0 /\ fut = <<>> /\ cb_log = <<>> /\ result = <<>>

C7_Witness ==
    /\ pc = "raised" /\ exc = "ValueError"
    /\ inp.step_size = RInt(-1) /\ inp.solver = "PSSAGA"
    /\ inp.g_prox = "callable" /\ inp.h_prox = "none"
    /\ inp.P = DenseSquare

\* C8: the caller's x0 keeps its values; x is another array; the returned x
\* is the final iterate; both memory buffers are all zero before the first
\* group.
C8_X0Untouched ==
    /\ heap.caller = VInt(inp.P.x0)
    /\ xref # "caller"
    /\ pc = "returned" => result[1].x = heap[xref]
    /\ (pc = "loop" /\ groups = 0) =>
          /\ memory_gradient = [i \in 1..inp.P.shape[1] |-> Zero]
          /\ gradient_average = [j \in 1..inp.P.shape[2] |-> Zero]

C8_Witness ==
    /\ pc = "returned" /\ groups = 2 /\ inp.n_jobs = 2
    /\ result[1].x # VInt(inp.P.x0)
    /\ heap.caller = VInt(inp.P.x0)

\* the number of rows of the matrix with a stored entry in column j
RowsStoring(a, j) ==
    Cardinality({i \in 1..a.n_samples :
        \E k \in (a.A_indptr[i] + 1)..a.A_indptr[i + 1] : a.A_indices[k] = j})

\* C10: the helper returns n_samples / count_j for every feature j, count_j
\* the number of rows with a stored entry in column j, and 0 when count_j = 0.
C10_InverseRowFrequency ==
    db.pc = "returned" =>
        \A j \in 1..db.args.n_features :
            db.d[j] = IF RowsStoring(db.args, j) = 0 THEN Zero
                      ELSE Rat(db.args.n_samples, RowsStoring(db.args, j))

\* C9: a second run of fmin_SAGA with one worker, the same arguments and the
\* same draws of the sample permutations ends as the first one did: the same
\* exception or a record with the same x, success and nit.
C9_SameSeedSameResult ==
    (rerun.mode = "second" /\ pc \in Ended) =>
        /\ pc = rerun.first[1].pc
        /\ exc = rerun.first[1].exc
        /\ pc = "returned" =>
              /\ result[1].x = rerun.first[1].result[1].x
              /\ result[1].success = rerun.first[1].result[1].success
              /\ result[1].nit = rerun.first[1].result[1].nit

C9_Witness ==
    /\ rerun.mode = "second" /\ pc = "returned"
    /\ inp.P = DenseSquare /\ groups = 2
    /\ result[1].x # VInt(inp.P.x0)
    /\ rerun.draws[1] # rerun.draws[2]

\* row i of the design matrix as a full-length vector
RECURSIVE RowEntrySum(_, _, _, _)
RowEntrySum(P, i, j, k) ==
    IF k = 0 THEN Zero
    ELSE RAdd(RowEntrySum(P, i, j, k - 1),
              IF RowIdx(P, i)[k] = j THEN RowData(P, i)[k] ELSE Zero)

RowVector(P, i) ==
    IF P.sparse
    THEN [j \in 1..n_features_of(P) |-> RowEntrySum(P, i, j, Len(RowIdx(P, i)))]
    ELSE DenseRow(P, i)

\* (1/n_samples) * sum_i mg[i] * A[i]
RECURSIVE WeightedRows(_, _, _)
WeightedRows(P, mg, k) ==
    IF k = 0 THEN VZero(n_features_of(P))
    ELSE VAdd(WeightedRows(P, mg, k - 1), VScale(mg[k], RowVector(P, k)))

TrackedAverage(P, mg) ==
    VScale(RDiv(One, RInt(n_samples_of(P))), WeightedRows(P, mg, n_samples_of(P)))

\* C11: in fmin_SAGA with two or more workers and caller-supplied functions
\* that return, after the barrier of every group gradient_average equals
\* (1/n_samples) * sum_i memory_gradient[i] * A[i].
C11_AverageAtBarrier ==
    (/\ inp.solver = "SAGA" /\ inp.n_jobs >= 2 /\ inp.faulty = "none"
     /\ pc \in {"callback", "trace", "check"}) =>
        gradient_average = TrackedAverage(inp.P, memory_gradient)

\* no pass is inside a sample visit
BetweenVisits == \A w \in DOMAIN fut : fut[w].phase = "update"

C13_MemoryIsLatest ==
    (memory_gradient # <<>> /\ BetweenVisits /\ inp.faulty = "none") =>
        \A i \in 1..n_samples :
            last_deriv[i] # <<>> => memory_gradient[i] = last_deriv[i][1]

\* every index the scatter of sample i writes lies in a block recorded for i,
\* among the features recorded for that block
ScatterCovered(P) ==
    \A i \in 1..n_samples_of(P) : \A j \in Range(RowIdx(P, i)) :
        \E g \in Range(block_support(P, i)) : j \in Range(reverse_blocks(P, g))

\* C14: in the sparse engine, with any number of workers, the accumulator
\* grad_est of every pass that has not failed is all-zero before and after
\* each of its sample visits, the indices its scatter writes being covered by
\* the blocks whose clean-up follows.
C14_AccumulatorZero ==
    (Engine(inp) = "sparse" /\ pc \notin {"entry", "raised"}) =>
        /\ ScatterCovered(inp.P)
        /\ \A w \in DOMAIN fut :
               fut[w].state # "raised" => fut[w].grad_est = VZero(n_features)

\* two concurrent passes, one of them just past a scatter of nonzero values
C14_Witness ==
    /\ Engine(inp) = "sparse" /\ inp.n_jobs = 2 /\ pc = "wait"
    /\ \E w \in DOMAIN fut :
          /\ fut[w].state = "running" /\ fut[w].phase = "load"
          /\ fut[w].grad_i # memory_gradient[fut[w].perm[fut[w].pos]]
          /\ \E v \in DOMAIN fut : v # w /\ fut[v].state = "running"

\* the number of samples with a stored entry in a feature of block g
TouchCount(P, g) ==
    Cardinality({i \in 1..n_samples_of(P) :
        \E k \in (P.indptr[i] + 1)..P.indptr[i + 1] :
            g_blocks_of(P)[P.indices[k]] = g})

\* a call of fmin_SAGA on a sparse matrix whose arguments and block map are valid
ValidSparseCall(c) ==
    /\ c.solver = "SAGA" /\ c.P.sparse
    /\ ~SizeMismatch(c) /\ ~RowsMismatch(c)
    /\ ~StepInvalid(c.step_size) /\ ~ProxInvalid(c.g_prox)
    /\ BlocksContiguous(c.P)

\* C15: for every sparse matrix and valid block map, also one with a block no
\* sample touches, the setup of the sparse engine completes and d[g] is
\* n_samples over the number of samples touching block g, 0 if there is none.
C15_BlockFactors ==
    (ValidSparseCall(inp) /\ pc # "entry") =>
        /\ ~(pc = "raised" /\ groups = 0 /\ exc # "UnboundLocalError")
        /\ \A g \in 1..n_blocks_of(inp.P) :
               block_d(inp.P)[g] =
                   IF TouchCount(inp.P, g) = 0 THEN Zero
                   ELSE Rat(n_samples, TouchCount(inp.P, g))

\* C16: in a dense pass with step size 0 and no proximal operator, x is after
\* every sample visit what it was when the pass started, for every
\* permutation and all starting buffers.
C16_ZeroStepNoOp ==
    (inp.step_size = Zero /\ inp.g_prox = "none" /\ Engine(inp) = "dense") =>
        heap[xref] = heap.caller

\* a pass with step size 0 has visited both samples, the last visit with a
\* nonzero gradient estimate
C16_Witness ==
    /\ inp.step_size = Zero /\ fut[1].state = "finished"
    /\ Len(fut[1].visited) = 2
    /\ \E j \in 1..n_features : gradient_average[j] # Zero
    /\ \E j \in 1..n_features : heap.caller[j] # Zero

\* what a step of pass w, visiting sample i, may change in the shared buffers
SparseVisitFrame(w) ==
    LET i == fut[w].perm[fut[w].pos]
        idx == Range(RowIdx(inp.P, i))
        touched == {g_blocks_of(inp.P)[j] : j \in idx}
    IN  /\ \A j \in 1..n_features :
               heap'[xref][j] # heap[xref][j] => g_blocks_of(inp.P)[j] \in touched
        /\ \A j \in 1..n_features :
               gradient_average'[j] # gradient_average[j] => j \in idx
        /\ \A k \in 1..n_samples :
               memory_gradient'[k] # memory_gradient[k] => k = i

\* C17: every step of a sparse pass belongs to the visit of one sample i by
\* one pass and changes x only inside the blocks i touches, gradient_average
\* only at the column indices of i, memory_gradient only at i; the arguments
\* (A, b, the block map, hence d) and the caller's x0 stay as they are.
C17_SparseFrame ==
    [][(Engine(inp) = "sparse" /\ pc = "wait" /\ pc' = "wait") =>
          /\ inp' = inp /\ xref' = xref /\ heap'.caller = heap.caller
          /\ \E w \in DOMAIN fut :
                 /\ fut[w].state = "running" /\ fut'[w] # fut[w]
                 /\ \A v \in DOMAIN fut : v # w => fut'[v] = fut[v]
                 /\ SparseVisitFrame(w)]_vars

\* sample 1 of [[1,0],[1,1]] with one block per feature has been visited: x,
\* gradient_average and memory_gradient moved at index 1 and nowhere else
C17_Witness ==
    /\ inp.P = SparseTwoBlocks /\ pc = "wait" /\ groups = 1
    /\ fut[1].visited = <<1>>
    /\ heap[xref][1] # heap.caller[1] /\ heap[xref][2] = heap.caller[2]
    /\ gradient_average[1] # Zero /\ gradient_average[2] = Zero
    /\ memory_gradient[1] # Zero /\ memory_gradient[2] = Zero

\* the visits of sample i made by the passes of the current group
RECURSIVE GroupVisits(_, _, _)
GroupVisits(f, i, k) ==
    IF k = 0 THEN 0
    ELSE GroupVisits(f, i, k - 1)
         + Cardinality({n \in 1..Len(f[k].visited) : f[k].visited[n] = i})

\* C18: a group has one pass per worker (n_jobs in fmin_SAGA, one in
\* fmin_PSSAGA); a pass visits the samples in the order of its permutation and,
\* unless a caller-supplied function raises in it, ends only after visiting
\* every sample exactly once; so after a group without such a failure every
\* sample has been visited n_jobs times in fmin_SAGA, once in fmin_PSSAGA.
C18_FullPasses ==
    pc \in {"wait", "epoch", "callback", "trace", "check"} =>
        /\ DOMAIN fut = 1..(IF inp.solver = "SAGA" THEN inp.n_jobs ELSE 1)
        /\ \A w \in DOMAIN fut :
               /\ fut[w].perm \in permutation(n_samples)
               /\ Len(fut[w].visited) <= n_samples
               /\ fut[w].visited = SubSeq(fut[w].perm, 1, Len(fut[w].visited))
               /\ fut[w].state = "finished" => fut[w].visited = fut[w].perm
        /\ (pc \in {"callback", "trace", "check"} /\ ~SomePassRaised) =>
               \A i \in 1..n_samples :
                   GroupVisits(fut, i, Len(fut)) =
                       IF inp.solver = "SAGA" THEN inp.n_jobs ELSE 1

\* after the barrier of the second group of two workers
C18_Witness ==
    /\ inp.solver = "SAGA" /\ inp.n_jobs = 2 /\ groups = 2
    /\ pc = "callback" /\ ~SomePassRaised
    /\ GroupVisits(fut, 1, Len(fut)) = 2

\* y - (x - z) of the locals of the last sample visit of the pass
YLeft ==
    LET loc == fut[1].locals[1] IN VSub(loc.y, VSub(loc.x, loc.z))

\* C19: in fmin_PSSAGA, once a pass has returned, the driver's vector is the
\* y that the last sample visit left, y - (x - z); that vector is what the
\* callback is handed, what the trace snapshots and what the result holds as x.
C19_PSSAGAReturnsY ==
    (/\ inp.solver = "PSSAGA" /\ groups >= 1 /\ fut[1].state = "finished"
     /\ pc \in {"callback", "trace", "check", "loop", "after_loop", "return",
                "returned"}) =>
        /\ heap[xref] = YLeft
        /\ (pc \in {"trace", "check"} /\ inp.callback) =>
               cb_log[Len(cb_log)] = YLeft
        /\ (pc = "check" /\ inp.trace) => trace_x[Len(trace_x)] = YLeft
        /\ pc = "returned" => result[1].x = YLeft

\* a returned x that is neither the primal point of the last visit nor the
\* primal point of the y it holds
C19_Witness ==
    /\ inp.solver = "PSSAGA" /\ pc = "returned" /\ inp.callback /\ inp.trace
    /\ result[1].x # fut[1].locals[1].x
    /\ result[1].x # PSSAGAPrimal(inp.g_prox, inp.step_size, result[1].x)
    /\ cb_log[Len(cb_log)] = result[1].x
====
